---- MODULE Spec2Model ----
(***************************************************************************)
(* State-machine model of the kitties pallet                               *)
(* (src/pallets/kitties/src/lib.rs).                                       *)
(*                                                                         *)
(* The four storage items of the pallet and the free balances kept by the  *)
(* Currency handler are the state.  Every dispatchable is one action that  *)
(* runs the whole call: the checks in the order of the code, the storage   *)
(* writes in the order of the code, and the rollback of the                *)
(* #[transactional] functions.  A helper returns the pair                  *)
(* [res, st]: the Result of the Rust function and the storage as it is     *)
(* when the function returns, so a write made before a failing check       *)
(* stays visible unless a transactional layer discards it.                 *)
(***************************************************************************)
EXTENDS Integers, Sequences, FiniteSets, TLC

\* ------------------------------------------------------------------------
\* Bounds of the model
\* ------------------------------------------------------------------------
\* number of dna values the crossover is checked on (SpecDna)
PoolSize == 5
\* length of a dna array (16 in the source, shortened)
DnaLen == 2
\* largest value of the u64 counter KittyCnt (u64::MAX, scaled down so that
\* checked_add can fail)
MaxKittyCnt == 4
\* number of successful calls explored after genesis
MaxCalls == 2

\* ------------------------------------------------------------------------
\* Program constants
\* ------------------------------------------------------------------------
\* Config::MaxKittyOwned
MaxKittyOwned == 3
\* Config::MinNameLength
MinNameLength == 1
\* Config::MaxNameLength
MaxNameLength == 2
\* bits of a u8
ByteBits == 8
\* minimum balance the Currency handler lets an account keep; a transfer
\* under ExistenceRequirement::KeepAlive must leave the source at or above it
ExistentialDeposit == 1

\* the accounts that sign calls and hold kitties
Accounts == {1, 2}
Gender == {"Male", "Female"}

\* Option<T>
None == << >>
Some(x) == << x >>

Ok == "Ok"

\* ------------------------------------------------------------------------
\* u8 arithmetic of breed_dna
\* ------------------------------------------------------------------------
RECURSIVE BitAndN(_, _, _)
BitAndN(a, b, n) ==
    IF n = 0 THEN 0
    ELSE ((a % 2) * (b % 2)) + 2 * BitAndN(a \div 2, b \div 2, n - 1)

RECURSIVE BitOrN(_, _, _)
BitOrN(a, b, n) ==
    IF n = 0 THEN 0
    ELSE (IF (a % 2) + (b % 2) > 0 THEN 1 ELSE 0)
         + 2 * BitOrN(a \div 2, b \div 2, n - 1)

\* a & b on u8
BitAnd(a, b) == BitAndN(a, b, ByteBits)
\* a | b on u8
BitOr(a, b) == BitOrN(a, b, ByteBits)
\* !a on u8
BitNot(a) == (2 ^ ByteBits - 1) - a

\* the k-th value of the randomness source, as a dna array
MkDna(k) == [i \in 1..DnaLen |-> (k * 85 + (i - 1) * 15 * k) % (2 ^ ByteBits)]
\* values gen_dna can return in the registry specification
DnaRandom == {MkDna(0), MkDna(1)}
\* values the crossover is checked on
DnaPool == {MkDna(k) : k \in 0..(PoolSize - 1)}

\* the loop without the complement of the random byte
Crossover_no_complement(random, dna1, dna2) ==
    [i \in 1..DnaLen |->
        BitOr(BitAnd(random[i], dna1[i]), BitAnd(random[i], dna2[i]))]

\* the loop of breed_dna on two parent arrays and the random array
Crossover(random, dna1, dna2) ==
    [i \in 1..DnaLen |->
        BitOr(BitAnd(random[i], dna1[i]), BitAnd(BitNot(random[i]), dna2[i]))]

\* ------------------------------------------------------------------------
\* State
\* ------------------------------------------------------------------------
VARIABLES
    KittyCnt,      \* StorageValue u64
    Kitties,       \* StorageMap id -> Kitty
    KittiesOwned,  \* StorageMap account -> BoundedVec of ids (ValueQuery)
    DnaToKitty,    \* StorageMap dna -> id
    FreeBalance,   \* free balance of every account, kept by T::Currency
    pc,            \* "idle": no call running; "done": a call has returned
    last,          \* the call that has just returned, its result and event
    calls          \* number of calls that returned Ok so far

vars == << KittyCnt, Kitties, KittiesOwned, DnaToKitty, FreeBalance, pc, last, calls >>

\* the storage as one value
Storage ==
    [cnt |-> KittyCnt, kitties |-> Kitties, owned |-> KittiesOwned,
     dna |-> DnaToKitty, bal |-> FreeBalance]

\* T::Hashing::hash_of(&kitty): a collision-free digest of the encoded struct
hash_of(kitty) == << kitty.dna, kitty.price, kitty.gender, kitty.owner, kitty.name >>

\* map with one more (or one overwritten) entry
Insert(map, key, val) ==
    [k \in (DOMAIN map) \cup {key} |-> IF k = key THEN val ELSE map[k]]

EmptyMap == [k \in {} |-> None]

\* a push that never refuses: the vector is not bounded
TryPushFits_unbounded(vec) == Len(vec) >= 0

\* BoundedVec::try_push under the bound MaxKittyOwned
TryPushFits(vec) == Len(vec) < MaxKittyOwned

\* position of id in an owned vector, 0 when absent (Iterator::position)
Position(vec, id) ==
    IF \E i \in 1..Len(vec) : vec[i] = id
    THEN CHOOSE i \in 1..Len(vec) : vec[i] = id /\ \A j \in 1..(i - 1) : vec[j] # id
    ELSE 0

\* a removal that drops the last element whatever the index
SwapRemove_pop(vec, ind) == SubSeq(vec, 1, Len(vec) - 1)

\* Vec::swap_remove: the last element takes the place of the removed one
SwapRemove(vec, ind) ==
    [i \in 1..(Len(vec) - 1) |-> IF i = ind THEN vec[Len(vec)] ELSE vec[i]]

\* ------------------------------------------------------------------------
\* mint
\* ------------------------------------------------------------------------
\* the struct built at the top of mint
NewKitty(owner, dna, gender) ==
    [dna |-> dna, price |-> None, gender |-> gender, owner |-> owner, name |-> None]

\* mint with the dna index written before the push that may fail
mint_dna_first(st, owner, dnaOpt, genderOpt, rndDna, rndGender) ==
    LET kitty == NewKitty(owner,
                          IF dnaOpt = None THEN rndDna ELSE dnaOpt[1],
                          IF genderOpt = None THEN rndGender ELSE genderOpt[1])
        kitty_id == hash_of(kitty)
        st1 == [st EXCEPT !.dna = Insert(@, kitty.dna, kitty_id)]
    IN  IF st.cnt + 1 > MaxKittyCnt
        THEN [res |-> "KittyCntOverflow", st |-> st, id |-> kitty_id]
        ELSE IF kitty_id \in DOMAIN st.kitties
        THEN [res |-> "KittyExists", st |-> st, id |-> kitty_id]
        ELSE IF ~TryPushFits(st.owned[owner])
        THEN [res |-> "ExceedMaxKittyOwned", st |-> st1, id |-> kitty_id]
        ELSE [res |-> Ok,
              st  |-> [st1 EXCEPT
                         !.owned[owner] = Append(@, kitty_id),
                         !.kitties = Insert(@, kitty_id, kitty),
                         !.cnt = st.cnt + 1],
              id  |-> kitty_id]

\* mint without the check that the id is new
mint_no_exists_check(st, owner, dnaOpt, genderOpt, rndDna, rndGender) ==
    LET kitty == NewKitty(owner,
                          IF dnaOpt = None THEN rndDna ELSE dnaOpt[1],
                          IF genderOpt = None THEN rndGender ELSE genderOpt[1])
        kitty_id == hash_of(kitty)
    IN  IF st.cnt + 1 > MaxKittyCnt
        THEN [res |-> "KittyCntOverflow", st |-> st, id |-> kitty_id]
        ELSE IF ~TryPushFits(st.owned[owner])
        THEN [res |-> "ExceedMaxKittyOwned", st |-> st, id |-> kitty_id]
        ELSE [res |-> Ok,
              st  |-> [st EXCEPT
                         !.owned[owner] = Append(@, kitty_id),
                         !.dna = Insert(@, kitty.dna, kitty_id),
                         !.kitties = Insert(@, kitty_id, kitty),
                         !.cnt = st.cnt + 1],
              id  |-> kitty_id]

\* mint that looks at the room in the owner's vector before it looks for
\* the id in the kitty map
mint_capacity_first(st, owner, dnaOpt, genderOpt, rndDna, rndGender) ==
    LET kitty == NewKitty(owner,
                          IF dnaOpt = None THEN rndDna ELSE dnaOpt[1],
                          IF genderOpt = None THEN rndGender ELSE genderOpt[1])
        kitty_id == hash_of(kitty)
    IN  IF st.cnt + 1 > MaxKittyCnt
        THEN [res |-> "KittyCntOverflow", st |-> st, id |-> kitty_id]
        ELSE IF ~TryPushFits(st.owned[owner])
        THEN [res |-> "ExceedMaxKittyOwned", st |-> st, id |-> kitty_id]
        ELSE IF kitty_id \in DOMAIN st.kitties
        THEN [res |-> "KittyExists", st |-> st, id |-> kitty_id]
        ELSE [res |-> Ok,
              st  |-> [st EXCEPT
                         !.owned[owner] = Append(@, kitty_id),
                         !.dna = Insert(@, kitty.dna, kitty_id),
                         !.kitties = Insert(@, kitty_id, kitty),
                         !.cnt = st.cnt + 1],
              id  |-> kitty_id]

\* mint that looks for the id in the owner's vector, not in the kitty map
mint_exists_in_owned(st, owner, dnaOpt, genderOpt, rndDna, rndGender) ==
    LET kitty == NewKitty(owner,
                          IF dnaOpt = None THEN rndDna ELSE dnaOpt[1],
                          IF genderOpt = None THEN rndGender ELSE genderOpt[1])
        kitty_id == hash_of(kitty)
    IN  IF st.cnt + 1 > MaxKittyCnt
        THEN [res |-> "KittyCntOverflow", st |-> st, id |-> kitty_id]
        ELSE IF \E i \in 1..Len(st.owned[owner]) : st.owned[owner][i] = kitty_id
        THEN [res |-> "KittyExists", st |-> st, id |-> kitty_id]
        ELSE IF ~TryPushFits(st.owned[owner])
        THEN [res |-> "ExceedMaxKittyOwned", st |-> st, id |-> kitty_id]
        ELSE [res |-> Ok,
              st  |-> [st EXCEPT
                         !.owned[owner] = Append(@, kitty_id),
                         !.dna = Insert(@, kitty.dna, kitty_id),
                         !.kitties = Insert(@, kitty_id, kitty),
                         !.cnt = st.cnt + 1],
              id  |-> kitty_id]

\* mint that refuses a dna the dna index already holds
mint_dna_unique(st, owner, dnaOpt, genderOpt, rndDna, rndGender) ==
    LET kitty == NewKitty(owner,
                          IF dnaOpt = None THEN rndDna ELSE dnaOpt[1],
                          IF genderOpt = None THEN rndGender ELSE genderOpt[1])
        kitty_id == hash_of(kitty)
    IN  IF st.cnt + 1 > MaxKittyCnt
        THEN [res |-> "KittyCntOverflow", st |-> st, id |-> kitty_id]
        ELSE IF kitty_id \in DOMAIN st.kitties \/ kitty.dna \in DOMAIN st.dna
        THEN [res |-> "KittyExists", st |-> st, id |-> kitty_id]
        ELSE IF ~TryPushFits(st.owned[owner])
        THEN [res |-> "ExceedMaxKittyOwned", st |-> st, id |-> kitty_id]
        ELSE [res |-> Ok,
              st  |-> [st EXCEPT
                         !.owned[owner] = Append(@, kitty_id),
                         !.dna = Insert(@, kitty.dna, kitty_id),
                         !.kitties = Insert(@, kitty_id, kitty),
                         !.cnt = st.cnt + 1],
              id  |-> kitty_id]

\* mint that does not write the dna index
mint_no_dna_index(st, owner, dnaOpt, genderOpt, rndDna, rndGender) ==
    LET kitty == NewKitty(owner,
                          IF dnaOpt = None THEN rndDna ELSE dnaOpt[1],
                          IF genderOpt = None THEN rndGender ELSE genderOpt[1])
        kitty_id == hash_of(kitty)
    IN  IF st.cnt + 1 > MaxKittyCnt
        THEN [res |-> "KittyCntOverflow", st |-> st, id |-> kitty_id]
        ELSE IF kitty_id \in DOMAIN st.kitties
        THEN [res |-> "KittyExists", st |-> st, id |-> kitty_id]
        ELSE IF ~TryPushFits(st.owned[owner])
        THEN [res |-> "ExceedMaxKittyOwned", st |-> st, id |-> kitty_id]
        ELSE [res |-> Ok,
              st  |-> [st EXCEPT
                         !.owned[owner] = Append(@, kitty_id),
                         !.kitties = Insert(@, kitty_id, kitty),
                         !.cnt = st.cnt + 1],
              id  |-> kitty_id]

\* mint(owner, dna, gender); rndDna and rndGender are what gen_dna and
\* gen_gender return when the option is None
mint(st, owner, dnaOpt, genderOpt, rndDna, rndGender) ==
    LET kitty == NewKitty(owner,
                          IF dnaOpt = None THEN rndDna ELSE dnaOpt[1],
                          IF genderOpt = None THEN rndGender ELSE genderOpt[1])
        kitty_id == hash_of(kitty)
    IN  IF st.cnt + 1 > MaxKittyCnt
        THEN [res |-> "KittyCntOverflow", st |-> st, id |-> kitty_id]
        ELSE IF kitty_id \in DOMAIN st.kitties
        THEN [res |-> "KittyExists", st |-> st, id |-> kitty_id]
        ELSE IF ~TryPushFits(st.owned[owner])
        THEN [res |-> "ExceedMaxKittyOwned", st |-> st, id |-> kitty_id]
        ELSE [res |-> Ok,
              st  |-> [st EXCEPT
                         !.owned[owner] = Append(@, kitty_id),
                         !.dna = Insert(@, kitty.dna, kitty_id),
                         !.kitties = Insert(@, kitty_id, kitty),
                         !.cnt = st.cnt + 1],
              id  |-> kitty_id]

\* ------------------------------------------------------------------------
\* Genesis
\* ------------------------------------------------------------------------
\* balances the accounts start with (set by the Currency handler's genesis)
InitBalance(a) == 2 * a - 1

EmptyStorage ==
    [cnt |-> 0, kitties |-> EmptyMap, owned |-> [a \in Accounts |-> << >>],
     dna |-> EmptyMap, bal |-> [a \in Accounts |-> InitBalance(a)]]

\* GenesisBuild::build: mint every entry, ignore the result
RECURSIVE GenesisBuild(_, _)
GenesisBuild(st, list) ==
    IF list = << >> THEN st
    ELSE GenesisBuild(
            mint(st, list[1][1], Some(list[1][2]), Some(list[1][3]),
                 list[1][2], list[1][3]).st,
            Tail(list))

\* entries a genesis list is made of: any account, any gender, one dna
GenesisEntries == Accounts \X {MkDna(0)} \X Gender
\* lengths of the genesis lists
GenesisLengths == {0, 1, 2}
GenesisLists == UNION {[1..n -> GenesisEntries] : n \in GenesisLengths}

NoCall == [op |-> "none"]

Init ==
    \E list \in GenesisLists :
        LET st == GenesisBuild(EmptyStorage, list)
        IN  /\ KittyCnt = st.cnt
            /\ Kitties = st.kitties
            /\ KittiesOwned = st.owned
            /\ DnaToKitty = st.dna
            /\ FreeBalance = st.bal
            /\ pc = "idle"
            /\ last = NoCall
            /\ calls = 0

\* ------------------------------------------------------------------------
\* Helpers of the pallet
\* ------------------------------------------------------------------------
\* is_kitty_owner that answers true for every account
is_kitty_owner_any(st, kitty_id, acct) ==
    IF kitty_id \in DOMAIN st.kitties
    THEN [res |-> Ok, val |-> TRUE]
    ELSE [res |-> "KittyNotExist", val |-> FALSE]

\* is_kitty_owner(kitty_id, acct): Err(KittyNotExist) or Ok(bool)
is_kitty_owner(st, kitty_id, acct) ==
    IF kitty_id \in DOMAIN st.kitties
    THEN [res |-> Ok, val |-> (st.kitties[kitty_id].owner = acct)]
    ELSE [res |-> "KittyNotExist", val |-> FALSE]

\* #[transactional]: the storage writes of a call that returns Err are dropped
with_transaction(pre, r) ==
    IF r.res = Ok THEN r ELSE [r EXCEPT !.st = pre]

\* transfer_kitty_to that keeps the asking price
transfer_kitty_to_body_keeps_price(st, kitty_id, to) ==
    IF kitty_id \notin DOMAIN st.kitties
    THEN [res |-> "KittyNotExist", st |-> st]
    ELSE
    LET kitty == st.kitties[kitty_id]
        prev_owner == kitty.owner
        ind == Position(st.owned[prev_owner], kitty_id)
    IN  IF ind = 0
        THEN [res |-> "KittyNotExist", st |-> st]
        ELSE
        LET st1 == [st EXCEPT !.owned[prev_owner] = SwapRemove(@, ind)]
            st2 == [st1 EXCEPT !.kitties[kitty_id] = [kitty EXCEPT !.owner = to]]
        IN  IF ~TryPushFits(st2.owned[to])
            THEN [res |-> "ExceedMaxKittyOwned", st |-> st2]
            ELSE [res |-> Ok,
                  st  |-> [st2 EXCEPT !.owned[to] = Append(@, kitty_id)]]

\* body of transfer_kitty_to, statement by statement
transfer_kitty_to_body(st, kitty_id, to) ==
    IF kitty_id \notin DOMAIN st.kitties
    THEN [res |-> "KittyNotExist", st |-> st]
    ELSE
    LET kitty == st.kitties[kitty_id]
        prev_owner == kitty.owner
        ind == Position(st.owned[prev_owner], kitty_id)
    IN  IF ind = 0
        THEN [res |-> "KittyNotExist", st |-> st]
        ELSE
        LET st1 == [st EXCEPT !.owned[prev_owner] = SwapRemove(@, ind)]
            st2 == [st1 EXCEPT !.kitties[kitty_id] =
                        [kitty EXCEPT !.owner = to, !.price = None]]
        IN  IF ~TryPushFits(st2.owned[to])
            THEN [res |-> "ExceedMaxKittyOwned", st |-> st2]
            ELSE [res |-> Ok,
                  st  |-> [st2 EXCEPT !.owned[to] = Append(@, kitty_id)]]

\* transfer_kitty_to(kitty_id, to)
transfer_kitty_to(st, kitty_id, to) ==
    with_transaction(st, transfer_kitty_to_body(st, kitty_id, to))

\* T::Currency::free_balance(who)
free_balance(st, who) == st.bal[who]

\* T::Currency::transfer(source, dest, value, ExistenceRequirement::KeepAlive):
\* the source must hold the value and must stay at or above the existential
\* deposit, the destination must end at or above it; nothing moves otherwise
currency_transfer(st, source, dest, value) ==
    IF value = 0 \/ source = dest
    THEN [res |-> Ok, st |-> st]
    ELSE IF st.bal[source] < value
    THEN [res |-> "Currency.InsufficientBalance", st |-> st]
    ELSE IF st.bal[dest] + value < ExistentialDeposit
    THEN [res |-> "Currency.ExistentialDeposit", st |-> st]
    ELSE IF st.bal[source] - value < ExistentialDeposit
    THEN [res |-> "Currency.KeepAlive", st |-> st]
    ELSE [res |-> Ok,
          st  |-> [st EXCEPT !.bal[source] = @ - value,
                             !.bal[dest] = st.bal[dest] + value]]

\* breed_dna(parent1, parent2); random is what gen_dna returns
breed_dna(st, parent1, parent2, random) ==
    IF parent1 \notin DOMAIN st.kitties \/ parent2 \notin DOMAIN st.kitties
    THEN [res |-> "KittyNotExist", dna |-> random]
    ELSE [res |-> Ok,
          dna |-> Crossover(random, st.kitties[parent1].dna, st.kitties[parent2].dna)]

\* add_kitty_name that refuses a name of exactly MinNameLength bytes
add_kitty_name_strict_min(st, kitty_id, name) ==
    IF kitty_id \notin DOMAIN st.kitties
    THEN [res |-> "KittyNotExist", st |-> st]
    ELSE IF Len(name) > MaxNameLength
    THEN [res |-> "NameTooLong", st |-> st]
    ELSE IF ~(Len(name) > MinNameLength)
    THEN [res |-> "NameTooShort", st |-> st]
    ELSE [res |-> Ok, st |-> [st EXCEPT !.kitties[kitty_id].name = Some(name)]]

\* add_kitty_name(kitty_id, name)
add_kitty_name(st, kitty_id, name) ==
    IF kitty_id \notin DOMAIN st.kitties
    THEN [res |-> "KittyNotExist", st |-> st]
    ELSE IF Len(name) > MaxNameLength
    THEN [res |-> "NameTooLong", st |-> st]
    ELSE IF ~(Len(name) >= MinNameLength)
    THEN [res |-> "NameTooShort", st |-> st]
    ELSE [res |-> Ok, st |-> [st EXCEPT !.kitties[kitty_id].name = Some(name)]]

\* ------------------------------------------------------------------------
\* Dispatchables: [res, st, event]
\* ------------------------------------------------------------------------
Fail(err, st) == [res |-> err, st |-> st, event |-> None]

\* create_kitty(origin)
create_kitty(st, sender, rndDna, rndGender) ==
    LET m == mint(st, sender, None, None, rndDna, rndGender)
    IN  IF m.res # Ok THEN Fail(m.res, m.st)
        ELSE [res |-> Ok, st |-> m.st, event |-> Some(<< "Created", sender, m.id >>)]

\* set_price that stores the kitty without its name
set_price_clears_name(st, sender, kitty_id, new_price) ==
    LET o == is_kitty_owner(st, kitty_id, sender)
    IN  IF o.res # Ok THEN Fail(o.res, st)
        ELSE IF ~o.val THEN Fail("NotKittyOwner", st)
        ELSE [res |-> Ok,
              st  |-> [st EXCEPT !.kitties[kitty_id].price = new_price,
                                 !.kitties[kitty_id].name = None],
              event |-> Some(<< "PriceSet", sender, kitty_id, new_price >>)]

\* set_price(origin, kitty_id, new_price)
set_price(st, sender, kitty_id, new_price) ==
    LET o == is_kitty_owner(st, kitty_id, sender)
    IN  IF o.res # Ok THEN Fail(o.res, st)
        ELSE IF ~o.val THEN Fail("NotKittyOwner", st)
        ELSE [res |-> Ok,
              st  |-> [st EXCEPT !.kitties[kitty_id].price = new_price],
              event |-> Some(<< "PriceSet", sender, kitty_id, new_price >>)]

\* transfer without the comparison of sender and recipient
transfer_no_self_check(st, from, to, kitty_id) ==
    LET o == is_kitty_owner(st, kitty_id, from)
    IN  IF o.res # Ok THEN Fail(o.res, st)
        ELSE IF ~o.val THEN Fail("NotKittyOwner", st)
        ELSE IF ~(Len(st.owned[to]) < MaxKittyOwned) THEN Fail("ExceedMaxKittyOwned", st)
        ELSE LET t == transfer_kitty_to(st, kitty_id, to)
             IN  IF t.res # Ok THEN Fail(t.res, t.st)
                 ELSE [res |-> Ok, st |-> t.st,
                       event |-> Some(<< "Transferred", from, to, kitty_id >>)]

\* transfer(origin, to, kitty_id)
transfer(st, from, to, kitty_id) ==
    LET o == is_kitty_owner(st, kitty_id, from)
    IN  IF o.res # Ok THEN Fail(o.res, st)
        ELSE IF ~o.val THEN Fail("NotKittyOwner", st)
        ELSE IF ~(from # to) THEN Fail("TransferToSelf", st)
        ELSE IF ~(Len(st.owned[to]) < MaxKittyOwned) THEN Fail("ExceedMaxKittyOwned", st)
        ELSE LET t == transfer_kitty_to(st, kitty_id, to)
             IN  IF t.res # Ok THEN Fail(t.res, t.st)
                 ELSE [res |-> Ok, st |-> t.st,
                       event |-> Some(<< "Transferred", from, to, kitty_id >>)]

\* buy_kitty that moves the asking price instead of the bid
buy_kitty_body_pays_ask(st, buyer, kitty_id, bid_price) ==
    IF kitty_id \notin DOMAIN st.kitties THEN Fail("KittyNotExist", st)
    ELSE
    LET kitty == st.kitties[kitty_id]
    IN  IF ~(kitty.owner # buyer) THEN Fail("BuyerIsKittyOwner", st)
        ELSE IF kitty.price = None THEN Fail("KittyNotForSale", st)
        ELSE IF ~(kitty.price[1] <= bid_price) THEN Fail("KittyBidPriceTooLow", st)
        ELSE IF ~(free_balance(st, buyer) >= bid_price) THEN Fail("NotEnoughBalance", st)
        ELSE IF ~(Len(st.owned[buyer]) < MaxKittyOwned) THEN Fail("ExceedMaxKittyOwned", st)
        ELSE
        LET seller == kitty.owner
            c == currency_transfer(st, buyer, seller, kitty.price[1])
        IN  IF c.res # Ok THEN Fail(c.res, c.st)
            ELSE LET t == transfer_kitty_to(c.st, kitty_id, buyer)
                 IN  IF t.res # Ok THEN Fail(t.res, t.st)
                     ELSE [res |-> Ok, st |-> t.st,
                           event |-> Some(<< "Bought", buyer, seller, kitty_id, bid_price >>)]

\* buy_kitty that looks at the balance before it looks at the price
buy_kitty_body_balance_first(st, buyer, kitty_id, bid_price) ==
    IF kitty_id \notin DOMAIN st.kitties THEN Fail("KittyNotExist", st)
    ELSE
    LET kitty == st.kitties[kitty_id]
    IN  IF ~(kitty.owner # buyer) THEN Fail("BuyerIsKittyOwner", st)
        ELSE IF ~(free_balance(st, buyer) >= bid_price) THEN Fail("NotEnoughBalance", st)
        ELSE IF kitty.price = None THEN Fail("KittyNotForSale", st)
        ELSE IF ~(kitty.price[1] <= bid_price) THEN Fail("KittyBidPriceTooLow", st)
        ELSE IF ~(Len(st.owned[buyer]) < MaxKittyOwned) THEN Fail("ExceedMaxKittyOwned", st)
        ELSE
        LET seller == kitty.owner
            c == currency_transfer(st, buyer, seller, bid_price)
        IN  IF c.res # Ok THEN Fail(c.res, c.st)
            ELSE LET t == transfer_kitty_to(c.st, kitty_id, buyer)
                 IN  IF t.res # Ok THEN Fail(t.res, t.st)
                     ELSE [res |-> Ok, st |-> t.st,
                           event |-> Some(<< "Bought", buyer, seller, kitty_id, bid_price >>)]

\* body of buy_kitty
buy_kitty_body(st, buyer, kitty_id, bid_price) ==
    IF kitty_id \notin DOMAIN st.kitties THEN Fail("KittyNotExist", st)
    ELSE
    LET kitty == st.kitties[kitty_id]
    IN  IF ~(kitty.owner # buyer) THEN Fail("BuyerIsKittyOwner", st)
        ELSE IF kitty.price = None THEN Fail("KittyNotForSale", st)
        ELSE IF ~(kitty.price[1] <= bid_price) THEN Fail("KittyBidPriceTooLow", st)
        ELSE IF ~(free_balance(st, buyer) >= bid_price) THEN Fail("NotEnoughBalance", st)
        ELSE IF ~(Len(st.owned[buyer]) < MaxKittyOwned) THEN Fail("ExceedMaxKittyOwned", st)
        ELSE
        LET seller == kitty.owner
            c == currency_transfer(st, buyer, seller, bid_price)
        IN  IF c.res # Ok THEN Fail(c.res, c.st)
            ELSE LET t == transfer_kitty_to(c.st, kitty_id, buyer)
                 IN  IF t.res # Ok THEN Fail(t.res, t.st)
                     ELSE [res |-> Ok, st |-> t.st,
                           event |-> Some(<< "Bought", buyer, seller, kitty_id, bid_price >>)]

\* buy_kitty that hands the kitty over before it takes the payment and is
\* not transactional
buy_kitty_kitty_first(st, buyer, kitty_id, bid_price) ==
    IF kitty_id \notin DOMAIN st.kitties THEN Fail("KittyNotExist", st)
    ELSE
    LET kitty == st.kitties[kitty_id]
    IN  IF ~(kitty.owner # buyer) THEN Fail("BuyerIsKittyOwner", st)
        ELSE IF kitty.price = None THEN Fail("KittyNotForSale", st)
        ELSE IF ~(kitty.price[1] <= bid_price) THEN Fail("KittyBidPriceTooLow", st)
        ELSE IF ~(free_balance(st, buyer) >= bid_price) THEN Fail("NotEnoughBalance", st)
        ELSE IF ~(Len(st.owned[buyer]) < MaxKittyOwned) THEN Fail("ExceedMaxKittyOwned", st)
        ELSE
        LET seller == kitty.owner
            t == transfer_kitty_to(st, kitty_id, buyer)
        IN  IF t.res # Ok THEN Fail(t.res, t.st)
            ELSE LET c == currency_transfer(t.st, buyer, seller, bid_price)
                 IN  IF c.res # Ok THEN Fail(c.res, c.st)
                     ELSE [res |-> Ok, st |-> c.st,
                           event |-> Some(<< "Bought", buyer, seller, kitty_id, bid_price >>)]

\* buy_kitty(origin, kitty_id, bid_price), #[transactional]
buy_kitty(st, buyer, kitty_id, bid_price) ==
    with_transaction(st, buy_kitty_body(st, buyer, kitty_id, bid_price))

\* the checks of breed_kitty without the comparison of the genders
breed_kitty_checks_no_gender(st, sender, parent1, parent2) ==
    IF ~(parent1 \in DOMAIN st.kitties /\ parent2 \in DOMAIN st.kitties)
    THEN "KittyNotExist"
    ELSE
    LET o1 == is_kitty_owner(st, parent1, sender)
        o2 == is_kitty_owner(st, parent2, sender)
    IN  IF o1.res # Ok THEN o1.res
        ELSE IF ~o1.val THEN "NotKittyOwner"
        ELSE IF o2.res # Ok THEN o2.res
        ELSE IF ~o2.val THEN "NotKittyOwner"
        ELSE Ok

\* the ensure! statements of breed_kitty: the first error, or Ok
breed_kitty_checks(st, sender, parent1, parent2) ==
    IF ~(parent1 \in DOMAIN st.kitties /\ parent2 \in DOMAIN st.kitties)
    THEN "KittyNotExist"
    ELSE
    LET o1 == is_kitty_owner(st, parent1, sender)
        o2 == is_kitty_owner(st, parent2, sender)
    IN  IF o1.res # Ok THEN o1.res
        ELSE IF ~o1.val THEN "NotKittyOwner"
        ELSE IF o2.res # Ok THEN o2.res
        ELSE IF ~o2.val THEN "NotKittyOwner"
        ELSE IF ~(st.kitties[parent1].gender # st.kitties[parent2].gender)
        THEN "SameSex"
        ELSE Ok

\* breed_kitty that also stores the child's record under the id of parent1
breed_kitty_overwrites_parent(st, sender, parent1, parent2, rndDna, rndGender) ==
    LET c == breed_kitty_checks(st, sender, parent1, parent2)
    IN  IF c # Ok THEN Fail(c, st)
        ELSE
        LET b == breed_dna(st, parent1, parent2, rndDna)
        IN  IF b.res # Ok THEN Fail(b.res, st)
            ELSE LET m == mint(st, sender, Some(b.dna), None, rndDna, rndGender)
                 IN  IF m.res # Ok THEN Fail(m.res, m.st)
                     ELSE [res |-> Ok,
                           st |-> [m.st EXCEPT !.kitties[parent1] = m.st.kitties[m.id]],
                           event |-> None]

\* breed_kitty(origin, parent1, parent2)
breed_kitty(st, sender, parent1, parent2, rndDna, rndGender) ==
    LET c == breed_kitty_checks(st, sender, parent1, parent2)
    IN  IF c # Ok THEN Fail(c, st)
        ELSE
        LET b == breed_dna(st, parent1, parent2, rndDna)
        IN  IF b.res # Ok THEN Fail(b.res, st)
            ELSE LET m == mint(st, sender, Some(b.dna), None, rndDna, rndGender)
                 IN  IF m.res # Ok THEN Fail(m.res, m.st)
                     ELSE [res |-> Ok, st |-> m.st, event |-> None]

\* name_kitty(origin, kitty_id, name)
name_kitty(st, sender, kitty_id, name) ==
    LET o == is_kitty_owner(st, kitty_id, sender)
    IN  IF o.res # Ok THEN Fail(o.res, st)
        ELSE IF ~o.val THEN Fail("NotKittyOwner", st)
        ELSE LET n == add_kitty_name(st, kitty_id, name)
             IN  IF n.res # Ok THEN Fail(n.res, n.st)
                 ELSE [res |-> Ok, st |-> n.st, event |-> None]

\* ------------------------------------------------------------------------
\* Inputs of the calls
\* ------------------------------------------------------------------------
\* ids mint can produce from the randomness source
MintIds == {hash_of(NewKitty(e[1], e[2], e[3])) : e \in Accounts \X DnaRandom \X Gender}

\* ids passed to a call: every stored id and one id that is not stored
IdArgs ==
    (DOMAIN Kitties) \cup
    (IF MintIds \ (DOMAIN Kitties) = {} THEN {}
     ELSE {CHOOSE i \in MintIds \ (DOMAIN Kitties) : TRUE})

\* asking prices and bids
AskPrices == {None, Some(1)}
BidPrices == {0, 1, 2}

\* names: too short, MinNameLength, MaxNameLength, too long
NameArgs == { << >>, << 7 >>, << 8, 7 >>, << 7, 8, 7 >> }

\* ------------------------------------------------------------------------
\* Actions
\* ------------------------------------------------------------------------
\* the call returns: its storage becomes the state, its result is recorded
Return(r, call) ==
    /\ (r.res = Ok => calls < MaxCalls)
    /\ KittyCnt' = r.st.cnt
    /\ Kitties' = r.st.kitties
    /\ KittiesOwned' = r.st.owned
    /\ DnaToKitty' = r.st.dna
    /\ FreeBalance' = r.st.bal
    /\ pc' = "done"
    /\ last' = [call EXCEPT !.res = r.res, !.event = r.event, !.pre = Storage]
    /\ calls' = IF r.res = Ok THEN calls + 1 ELSE calls

Call(op, who, id) ==
    [op |-> op, who |-> who, id |-> id, arg |-> None, res |-> Ok, event |-> None,
     pre |-> Storage]

CreateKitty ==
    /\ pc = "idle"
    /\ \E sender \in Accounts, d \in DnaRandom, g \in Gender :
           Return(create_kitty(Storage, sender, d, g),
                  Call("create_kitty", sender, hash_of(NewKitty(sender, d, g))))

SetPrice ==
    /\ pc = "idle"
    /\ \E sender \in Accounts, id \in IdArgs, p \in AskPrices :
           Return(set_price(Storage, sender, id, p),
                  [Call("set_price", sender, id) EXCEPT !.arg = p])

Transfer ==
    /\ pc = "idle"
    /\ \E from \in Accounts, to \in Accounts, id \in IdArgs :
           Return(transfer(Storage, from, to, id),
                  [Call("transfer", from, id) EXCEPT !.arg = to])

BuyKitty ==
    /\ pc = "idle"
    /\ \E buyer \in Accounts, id \in IdArgs, bid \in BidPrices :
           Return(buy_kitty(Storage, buyer, id, bid),
                  [Call("buy_kitty", buyer, id) EXCEPT !.arg = bid])

BreedKitty ==
    /\ pc = "idle"
    /\ \E sender \in Accounts, p1 \in IdArgs, p2 \in IdArgs :
           IF breed_kitty_checks(Storage, sender, p1, p2) # Ok
           THEN \* the randomness source is not asked
                Return(breed_kitty(Storage, sender, p1, p2, MkDna(0), "Male"),
                       [Call("breed_kitty", sender, p1) EXCEPT !.arg = << p2 >>])
           ELSE \E d \in DnaRandom, g \in Gender :
                   Return(breed_kitty(Storage, sender, p1, p2, d, g),
                          [Call("breed_kitty", sender, p1) EXCEPT !.arg = << p2, d, g >>])

NameKitty ==
    /\ pc = "idle"
    /\ \E sender \in Accounts, id \in IdArgs, n \in NameArgs :
           Return(name_kitty(Storage, sender, id, n),
                  [Call("name_kitty", sender, id) EXCEPT !.arg = n])

\* the next extrinsic is taken up: the result and event of the last one
\* are no longer current
NextExtrinsic ==
    /\ pc = "done"
    /\ pc' = "idle"
    /\ last' = NoCall
    /\ UNCHANGED << KittyCnt, Kitties, KittiesOwned, DnaToKitty, FreeBalance, calls >>

Next ==
    \/ CreateKitty
    \/ SetPrice
    \/ Transfer
    \/ BuyKitty
    \/ BreedKitty
    \/ NameKitty
    \/ NextExtrinsic

Spec == Init /\ [][Next]_vars

\* ------------------------------------------------------------------------
\* The crossover on its own: two parents with any dna of the pool are
\* stored, breed_dna is applied to them with any random value of the pool
\* ------------------------------------------------------------------------
InitDna ==
    \E dna1 \in DnaPool, dna2 \in DnaPool :
        LET st == GenesisBuild(EmptyStorage,
                               << << 1, dna1, "Male" >>, << 1, dna2, "Female" >> >>)
        IN  /\ KittyCnt = st.cnt
            /\ Kitties = st.kitties
            /\ KittiesOwned = st.owned
            /\ DnaToKitty = st.dna
            /\ FreeBalance = st.bal
            /\ pc = "idle"
            /\ last = NoCall
            /\ calls = 0

BreedDna ==
    /\ pc = "idle"
    /\ \E parent1 \in IdArgs, parent2 \in IdArgs, random \in DnaPool :
          LET b == breed_dna(Storage, parent1, parent2, random)
          IN  /\ pc' = "done"
              /\ last' = [op |-> "breed_dna", who |-> 1, id |-> parent1,
                          arg |-> << parent2, random >>, res |-> b.res,
                          event |-> None, pre |-> Storage, dna |-> b.dna]
              /\ UNCHANGED << KittyCnt, Kitties, KittiesOwned, DnaToKitty,
                              FreeBalance, calls >>

NextDna == BreedDna

SpecDna == InitDna /\ [][NextDna]_vars

\* ------------------------------------------------------------------------
\* A registry whose genesis fills the vector of one account: that account
\* is given MaxKittyOwned kitties, the other account one kitty or none.
\* The calls are those of Spec.  Starting from three or four kitties over
\* two dnas, MaxCalls calls reach refusals for capacity, transfers out of a
\* full vector and breeding by an account that owns both parents.
\* ------------------------------------------------------------------------
\* genesis entries that fill the vector of account a
FullOwnerEntries(a) ==
    << << a, MkDna(0), "Male" >>, << a, MkDna(0), "Female" >>, << a, MkDna(1), "Male" >> >>

\* genesis lists: the entries of the full account, then those of the other
FullOwnerLists ==
    {FullOwnerEntries(a) \o rest :
        a \in Accounts,
        rest \in {<< >>} \cup {<< << b, MkDna(0), "Male" >> >> : b \in Accounts}}

InitFull ==
    \E list \in FullOwnerLists :
        LET st == GenesisBuild(EmptyStorage, list)
        IN  /\ KittyCnt = st.cnt
            /\ Kitties = st.kitties
            /\ KittiesOwned = st.owned
            /\ DnaToKitty = st.dna
            /\ FreeBalance = st.bal
            /\ pc = "idle"
            /\ last = NoCall
            /\ calls = 0

SpecFull == InitFull /\ [][Next]_vars

\* ------------------------------------------------------------------------
\* Properties
\* ------------------------------------------------------------------------
\* a call of op has just returned; last.pre is the storage it started from
Done(op) == pc = "done" /\ last.op = op
Succeeded(op) == Done(op) /\ last.res = Ok
Failed(op) == Done(op) /\ last.res # Ok

\* ids held in an owned vector
Ids(vec) == {vec[i] : i \in 1..Len(vec)}

\* C1: a call of any dispatchable that returns an error leaves the count,
\* the kitty map, the owned vectors, the dna index and every balance as
\* they were before the call.
C1_FailedCallChangesNothing ==
    (pc = "done" /\ last.res # Ok) => Storage = last.pre

\* a mint refused by the owner's full vector, after its earlier checks passed
C1_Witness ==
    /\ Failed("create_kitty")
    /\ last.res = "ExceedMaxKittyOwned"
    /\ Len(KittiesOwned[last.who]) = MaxKittyOwned

\* the preconditions of buy_kitty hold in storage st
BuyPreconditionsHold(st, buyer, id, bid) ==
    /\ id \in DOMAIN st.kitties
    /\ st.kitties[id].owner # buyer
    /\ st.kitties[id].price # None
    /\ st.kitties[id].price[1] <= bid
    /\ st.bal[buyer] >= bid
    /\ Len(st.owned[buyer]) < MaxKittyOwned

\* C2: a buy_kitty that got past its preconditions and then failed, in the
\* balance transfer or in the ownership transfer after it, leaves the
\* registry and every balance as before the call.
C2_BuyAllOrNothing ==
    (/\ Failed("buy_kitty")
     /\ BuyPreconditionsHold(last.pre, last.who, last.id, last.arg))
    => Storage = last.pre

\* a buy whose balance transfer was refused
C2_Witness ==
    /\ Failed("buy_kitty")
    /\ BuyPreconditionsHold(last.pre, last.who, last.id, last.arg)
    /\ last.res = "Currency.KeepAlive"

\* C3: every stored id is in the owned vector of exactly one account, that
\* account is the kitty's owner field, and every id in an owned vector is
\* stored.
C3_OwnershipBijection ==
    /\ \A id \in DOMAIN Kitties :
          /\ Kitties[id].owner \in Accounts
          /\ {a \in Accounts : id \in Ids(KittiesOwned[a])} = {Kitties[id].owner}
    /\ \A a \in Accounts : Ids(KittiesOwned[a]) \subseteq DOMAIN Kitties

\* a transfer that removed an id from the middle of the sender's vector
C3_Witness ==
    /\ Succeeded("transfer")
    /\ Position(last.pre.owned[last.who], last.id) < Len(last.pre.owned[last.who])
    /\ Cardinality(DOMAIN Kitties) >= 2

\* C4: no owned vector is longer than MaxKittyOwned and none holds an id
\* twice.
C4_OwnedBoundedNoDuplicates ==
    \A a \in Accounts :
        /\ Len(KittiesOwned[a]) <= MaxKittyOwned
        /\ Cardinality(Ids(KittiesOwned[a])) = Len(KittiesOwned[a])

\* a full vector that has just refused one more id
C4_Witness ==
    /\ pc = "done"
    /\ last.res = "ExceedMaxKittyOwned"
    /\ \E a \in Accounts : Len(KittiesOwned[a]) = MaxKittyOwned

\* C5: the count is the number of stored kitties; a successful mint
\* (create_kitty, the mint of breed_kitty, the mints of genesis) adds one
\* id that was not stored and raises the count by one; a failed mint and
\* every other call leave the count and the set of stored ids unchanged.
C5_CountIsNumberOfKitties ==
    /\ KittyCnt = Cardinality(DOMAIN Kitties)
    /\ pc = "done" =>
          IF last.op \in {"create_kitty", "breed_kitty"} /\ last.res = Ok
          THEN /\ KittyCnt = last.pre.cnt + 1
               /\ \E id \in DOMAIN Kitties :
                     /\ id \notin DOMAIN last.pre.kitties
                     /\ DOMAIN Kitties = (DOMAIN last.pre.kitties) \cup {id}
          ELSE /\ KittyCnt = last.pre.cnt
               /\ DOMAIN Kitties = DOMAIN last.pre.kitties

\* a breed that minted a child
C5_Witness ==
    /\ Succeeded("breed_kitty")
    /\ KittyCnt = last.pre.cnt + 1

\* C6: after a successful transfer or buy_kitty the kitty's price is None
\* whatever it was before, and a buy_kitty succeeds only on a kitty whose
\* price was Some: a kitty just transferred or bought cannot be bought
\* again until its owner sets a price.
C6_PriceResetOnOwnerChange ==
    /\ (Succeeded("transfer") \/ Succeeded("buy_kitty"))
          => Kitties[last.id].price = None
    /\ Succeeded("buy_kitty") => last.pre.kitties[last.id].price # None
    /\ (Done("buy_kitty") /\ last.id \in DOMAIN last.pre.kitties
          /\ last.pre.kitties[last.id].price = None) => last.res # Ok

\* a priced kitty has been bought
C6_Witness ==
    /\ Succeeded("buy_kitty")
    /\ last.pre.kitties[last.id].price = Some(1)
    /\ Kitties[last.id].price = None

\* the Currency handler accepts the payment of a buy in storage st
PaymentAccepted(st, buyer, id, bid) ==
    currency_transfer(st, buyer, st.kitties[id].owner, bid).res = Ok

\* what a successful buy_kitty leaves behind
BuyEffects ==
    LET pre == last.pre
        buyer == last.who
        seller == pre.kitties[last.id].owner
        bid == last.arg
    IN  /\ Kitties[last.id].owner = buyer
        /\ Kitties[last.id].price = None
        /\ FreeBalance[buyer] = pre.bal[buyer] - bid
        /\ FreeBalance[seller] = pre.bal[seller] + bid
        /\ \A a \in Accounts \ {buyer, seller} : FreeBalance[a] = pre.bal[a]
        /\ last.event = Some(<< "Bought", buyer, seller, last.id, bid >>)

\* C7 as stated: a buy_kitty succeeds whenever the kitty exists, the buyer
\* is not its owner, the price is Some(ask) with bid >= ask, the buyer's
\* balance is >= bid (a balance equal to the bid included) and the buyer's
\* vector has room; the owner becomes the buyer, bid moves from the buyer
\* to the previous owner, the price becomes None and Bought is deposited.
C7_Original ==
    (/\ Done("buy_kitty")
     /\ BuyPreconditionsHold(last.pre, last.who, last.id, last.arg))
    => (last.res = Ok /\ BuyEffects)

\* C7, amended: a buy_kitty succeeds whenever the preconditions above hold
\* and the Currency handler accepts the keep-alive transfer of the bid from
\* the buyer to the owner; then the owner becomes the buyer, exactly the
\* bid moves from the buyer to the previous owner, the price becomes None
\* and Bought(buyer, seller, id, bid) is deposited.
C7_BuySucceedsWhenPaymentAccepted ==
    (/\ Done("buy_kitty")
     /\ BuyPreconditionsHold(last.pre, last.who, last.id, last.arg)
     /\ PaymentAccepted(last.pre, last.who, last.id, last.arg))
    => (last.res = Ok /\ BuyEffects)

\* a buy at a bid above the asking price
C7_Witness ==
    /\ Succeeded("buy_kitty")
    /\ last.pre.kitties[last.id].price # None
    /\ last.arg > last.pre.kitties[last.id].price[1]
    /\ Kitties[last.id].owner = last.who

\* the first precondition of buy_kitty that fails in storage st, in the
\* order: kitty stored, buyer is not the owner, for sale, bid not below
\* the asking price, balance covers the bid, room in the buyer's vector
FirstBuyError(st, buyer, id, bid) ==
    IF id \notin DOMAIN st.kitties THEN "KittyNotExist"
    ELSE IF st.kitties[id].owner = buyer THEN "BuyerIsKittyOwner"
    ELSE IF st.kitties[id].price = None THEN "KittyNotForSale"
    ELSE IF bid < st.kitties[id].price[1] THEN "KittyBidPriceTooLow"
    ELSE IF st.bal[buyer] < bid THEN "NotEnoughBalance"
    ELSE IF Len(st.owned[buyer]) >= MaxKittyOwned THEN "ExceedMaxKittyOwned"
    ELSE "none"

\* number of preconditions of buy_kitty, among those that can be evaluated
\* on a stored kitty, that fail in storage st
BuyViolations(st, buyer, id, bid) ==
    Cardinality({k \in 1..5 :
        \/ k = 1 /\ st.kitties[id].owner = buyer
        \/ k = 2 /\ st.kitties[id].price = None
        \/ k = 3 /\ st.kitties[id].price # None /\ bid < st.kitties[id].price[1]
        \/ k = 4 /\ st.bal[buyer] < bid
        \/ k = 5 /\ Len(st.owned[buyer]) >= MaxKittyOwned})

Bit(x, j) == (x \div (2 ^ j)) % 2

\* C9: at every bit position the dna produced by breed_dna has parent1's
\* bit where the random value's bit is 1 and parent2's bit where it is 0;
\* so each bit is a bit of one of the parents, and where the parents agree
\* the child agrees with both.
C9_CrossoverPerBit ==
    (Done("breed_dna") /\ last.res = Ok) =>
        LET dna1 == last.pre.kitties[last.id].dna
            dna2 == last.pre.kitties[last.arg[1]].dna
            random == last.arg[2]
            child == last.dna
        IN  /\ DOMAIN child = 1..DnaLen
            /\ \A i \in 1..DnaLen :
                  /\ child[i] \in 0..(2 ^ ByteBits - 1)
                  /\ \A j \in 0..(ByteBits - 1) :
                        /\ Bit(child[i], j) =
                              IF Bit(random[i], j) = 1 THEN Bit(dna1[i], j)
                              ELSE Bit(dna2[i], j)
                        /\ Bit(child[i], j) \in {Bit(dna1[i], j), Bit(dna2[i], j)}
                        /\ Bit(dna1[i], j) = Bit(dna2[i], j)
                              => Bit(child[i], j) = Bit(dna1[i], j)

\* a crossover that took a bit from each parent where the parents differ
C9_Witness ==
    /\ Done("breed_dna")
    /\ last.res = Ok
    /\ LET dna1 == last.pre.kitties[last.id].dna
           dna2 == last.pre.kitties[last.arg[1]].dna
           random == last.arg[2]
       IN  /\ \E i \in 1..DnaLen, j \in 0..(ByteBits - 1) :
                 /\ Bit(dna1[i], j) # Bit(dna2[i], j)
                 /\ Bit(random[i], j) = 1
                 /\ Bit(last.dna[i], j) = Bit(dna1[i], j)
           /\ \E i \in 1..DnaLen, j \in 0..(ByteBits - 1) :
                 /\ Bit(dna1[i], j) # Bit(dna2[i], j)
                 /\ Bit(random[i], j) = 0
                 /\ Bit(last.dna[i], j) = Bit(dna2[i], j)

\* C10: breed_kitty reports KittyNotExist when a parent is not stored,
\* else NotKittyOwner when the caller does not own both, else SameSex when
\* the parents have the same gender (one kitty given twice included); a
\* SameSex call mints nothing: the kitty map, the count and the owned
\* vectors are as before.
C10_BreedSameSexRejected ==
    Done("breed_kitty") =>
        LET pre == last.pre
            p1 == last.id
            p2 == last.arg[1]
        IN  IF p1 \notin DOMAIN pre.kitties \/ p2 \notin DOMAIN pre.kitties
            THEN last.res = "KittyNotExist"
            ELSE IF pre.kitties[p1].owner # last.who \/ pre.kitties[p2].owner # last.who
            THEN last.res = "NotKittyOwner"
            ELSE pre.kitties[p1].gender = pre.kitties[p2].gender =>
                    /\ last.res = "SameSex"
                    /\ Kitties = pre.kitties
                    /\ KittyCnt = pre.cnt
                    /\ KittiesOwned = pre.owned

\* the owner of two different kitties of one gender tried to breed them
C10_Witness ==
    /\ Failed("breed_kitty")
    /\ last.res = "SameSex"
    /\ last.id # last.arg[1]
    /\ last.pre.kitties[last.id].owner = last.who
    /\ last.pre.kitties[last.arg[1]].owner = last.who

\* the call that has just returned adds a kitty to the vector of this
\* account when it succeeds: the caller of create_kitty, breed_kitty and
\* buy_kitty, the recipient of transfer
Receiver ==
    IF last.op = "transfer" THEN last.arg ELSE last.who

\* a call that would add a kitty to a vector that was full before it
TargetsFullOwner ==
    /\ pc = "done"
    /\ last.op \in {"create_kitty", "breed_kitty", "transfer", "buy_kitty"}
    /\ Len(last.pre.owned[Receiver]) = MaxKittyOwned

\* the id of the child a breed_kitty call would mint, from the parents'
\* dna in storage st and the values drawn from the randomness source
ChildId(st, who, p1, p2, rndDna, rndGender) ==
    << [i \in 1..DnaLen |->
          BitOr(BitAnd(rndDna[i], st.kitties[p1].dna[i]),
                BitAnd(BitNot(rndDna[i]), st.kitties[p2].dna[i]))],
       None, rndGender, who, None >>

\* every check the call makes before it looks at the room in the
\* receiver's vector passes in the storage before the call
EarlierChecksPass ==
    LET pre == last.pre
    IN  CASE last.op = "create_kitty" ->
                /\ pre.cnt < MaxKittyCnt
                /\ last.id \notin DOMAIN pre.kitties
          [] last.op = "breed_kitty" ->
                /\ last.id \in DOMAIN pre.kitties
                /\ last.arg[1] \in DOMAIN pre.kitties
                /\ pre.kitties[last.id].owner = last.who
                /\ pre.kitties[last.arg[1]].owner = last.who
                /\ pre.kitties[last.id].gender # pre.kitties[last.arg[1]].gender
                /\ pre.cnt < MaxKittyCnt
                /\ ChildId(pre, last.who, last.id, last.arg[1], last.arg[2], last.arg[3])
                      \notin DOMAIN pre.kitties
          [] last.op = "transfer" ->
                /\ last.id \in DOMAIN pre.kitties
                /\ pre.kitties[last.id].owner = last.who
                /\ last.who # last.arg
          [] last.op = "buy_kitty" ->
                /\ last.id \in DOMAIN pre.kitties
                /\ pre.kitties[last.id].owner # last.who
                /\ pre.kitties[last.id].price # None
                /\ pre.kitties[last.id].price[1] <= last.arg
                /\ pre.bal[last.who] >= last.arg
          [] OTHER -> FALSE

\* C11 as stated: when an account holds MaxKittyOwned kitties, every
\* create_kitty and breed_kitty by it, every transfer to it and every
\* buy_kitty by it fails with ExceedMaxKittyOwned and leaves its owned
\* vector unchanged.
C11_Original ==
    TargetsFullOwner =>
        /\ last.res = "ExceedMaxKittyOwned"
        /\ KittiesOwned[Receiver] = last.pre.owned[Receiver]

\* C11, amended: when an account holds MaxKittyOwned kitties, every
\* create_kitty and breed_kitty by it, every transfer to it and every
\* buy_kitty by it fails and leaves its owned vector unchanged; the error
\* is ExceedMaxKittyOwned exactly when every earlier check of the call
\* passes (the room in the vector is the last thing each call looks at),
\* and the error of the earlier check otherwise.
C11_FullOwnerRefused ==
    TargetsFullOwner =>
        /\ last.res # Ok
        /\ KittiesOwned[Receiver] = last.pre.owned[Receiver]
        /\ (last.res = "ExceedMaxKittyOwned") <=> EarlierChecksPass

\* a buy by an account whose vector is full, refused for that reason only
C11_Witness ==
    /\ TargetsFullOwner
    /\ last.op = "buy_kitty"
    /\ EarlierChecksPass
    /\ last.res = "ExceedMaxKittyOwned"
    /\ KittiesOwned[last.who] = last.pre.owned[last.who]

\* C12: name_kitty on a stored kitty, called by its owner, returns
\* NameTooShort for a name shorter than MinNameLength, NameTooLong for a
\* name longer than MaxNameLength, and succeeds for every length from
\* MinNameLength to MaxNameLength, both included, storing exactly the
\* bytes given; called by another account it returns NotKittyOwner and the
\* name stays as it was.
C12_NameLengthBounds ==
    (Done("name_kitty") /\ last.id \in DOMAIN last.pre.kitties) =>
        LET old == last.pre.kitties[last.id]
            name == last.arg
        IN  IF old.owner # last.who
            THEN /\ last.res = "NotKittyOwner"
                 /\ Kitties[last.id].name = old.name
            ELSE IF Len(name) < MinNameLength
            THEN last.res = "NameTooShort"
            ELSE IF Len(name) > MaxNameLength
            THEN last.res = "NameTooLong"
            ELSE /\ last.res = Ok
                 /\ Kitties[last.id].name = Some(name)

\* the owner gave a kitty that had a name of MinNameLength bytes a name of
\* MaxNameLength bytes
C12_Witness ==
    /\ Succeeded("name_kitty")
    /\ last.pre.kitties[last.id].name # None
    /\ Len(last.pre.kitties[last.id].name[1]) = MinNameLength
    /\ Len(last.arg) = MaxNameLength
    /\ Kitties[last.id].name = Some(last.arg)

\* the call that has just returned reached mint: create_kitty always,
\* breed_kitty when its checks passed and the randomness source was asked
MintAttempted ==
    /\ pc = "done"
    /\ \/ last.op = "create_kitty"
       \/ last.op = "breed_kitty" /\ Len(last.arg) = 3

\* the id of the kitty that mint built in that call
MintedId ==
    IF last.op = "create_kitty" THEN last.id
    ELSE ChildId(last.pre, last.who, last.id, last.arg[1], last.arg[2], last.arg[3])

\* the id under which a kitty of this owner, dna and gender is minted
TripleId(owner, dna, gender) == << dna, None, gender, owner, None >>

\* a stored id is never removed, and it stays the id of the owner, dna and
\* gender its kitty was minted with, whatever the kitty's owner, price and
\* name have become
IdsKeepTheirTriple ==
    /\ pc = "done" => DOMAIN last.pre.kitties \subseteq DOMAIN Kitties
    /\ \A id \in DOMAIN Kitties :
          id = TripleId(id[4], Kitties[id].dna, Kitties[id].gender)
    /\ (MintAttempted /\ last.res = Ok) =>
          /\ MintedId \in DOMAIN Kitties
          /\ MintedId = TripleId(last.who, Kitties[MintedId].dna, Kitties[MintedId].gender)

\* C13 as stated: after a mint for (owner, dna, gender) has succeeded,
\* every later mint for the same owner, dna and gender returns KittyExists,
\* whatever calls were made in between and whether or not the first kitty
\* has been transferred, priced or named.
C13_Original ==
    /\ IdsKeepTheirTriple
    /\ (MintAttempted /\ MintedId \in DOMAIN last.pre.kitties) =>
          last.res = "KittyExists"

\* C13, amended: after a mint for (owner, dna, gender) has succeeded, every
\* later mint for the same owner, dna and gender fails and changes nothing,
\* whatever calls were made in between and whether or not the first kitty
\* has been transferred, priced or named; the error is KittyExists unless
\* the count is at the top of its range, where the mint returns
\* KittyCntOverflow before it looks for the id.
C13_SecondMintRejected ==
    /\ IdsKeepTheirTriple
    /\ (MintAttempted /\ MintedId \in DOMAIN last.pre.kitties) =>
          /\ last.res = IF last.pre.cnt = MaxKittyCnt THEN "KittyCntOverflow"
                        ELSE "KittyExists"
          /\ Storage = last.pre

\* a mint for the owner, dna and gender of a kitty that has since been
\* transferred to another account and priced or named there
C13_Witness ==
    /\ MintAttempted
    /\ MintedId \in DOMAIN last.pre.kitties
    /\ last.res = "KittyExists"
    /\ last.pre.kitties[MintedId].owner # last.who
    /\ \/ last.pre.kitties[MintedId].price # None
       \/ last.pre.kitties[MintedId].name # None

\* the Created event of the kitty that mint built in the call
CreatedEvent == Some(<< "Created", last.who, MintedId >>)

\* the call that has just returned added exactly the kitty that mint built
MintAddedKitty ==
    /\ MintedId \notin DOMAIN last.pre.kitties
    /\ DOMAIN Kitties = (DOMAIN last.pre.kitties) \cup {MintedId}
    /\ Kitties[MintedId].owner = last.who

\* C14 as stated: every successful mint deposits Created(owner, id) for
\* the new kitty, the mint of create_kitty and the mint of the child in
\* breed_kitty alike, so a call deposits a Created event exactly when it
\* adds a kitty.
C14_Original ==
    /\ (MintAttempted /\ last.res = Ok) =>
          (MintAddedKitty /\ last.event = CreatedEvent)
    /\ (pc = "done" /\ last.event # None /\ last.event[1][1] = "Created") =>
          Cardinality(DOMAIN Kitties) = Cardinality(DOMAIN last.pre.kitties) + 1
    /\ (pc = "done" /\ DOMAIN Kitties # DOMAIN last.pre.kitties) =>
          (last.event # None /\ last.event[1][1] = "Created")

\* C14, what the code does: a successful create_kitty deposits
\* Created(sender, id) for the kitty it added; a successful breed_kitty
\* adds the child and deposits no event; no other call and no failed call
\* deposits Created.
C14_CreatedOnlyByCreateKitty ==
    /\ Succeeded("create_kitty") => (MintAddedKitty /\ last.event = CreatedEvent)
    /\ Succeeded("breed_kitty") => (MintAddedKitty /\ last.event = None)
    /\ (pc = "done" /\ last.event # None /\ last.event[1][1] = "Created") =>
          Succeeded("create_kitty")

\* a breed that added a child and deposited no event
C14_Witness ==
    /\ Succeeded("breed_kitty")
    /\ MintAddedKitty
    /\ last.event = None

\* what a successful transfer leaves behind
TransferEffects ==
    LET pre == last.pre
        from == last.who
        to == last.arg
        id == last.id
    IN  /\ id \notin Ids(KittiesOwned[from])
        /\ Ids(KittiesOwned[from]) = Ids(pre.owned[from]) \ {id}
        /\ Len(KittiesOwned[from]) = Len(pre.owned[from]) - 1
        /\ KittiesOwned[to] = Append(pre.owned[to], id)
        /\ \A a \in Accounts \ {from, to} : KittiesOwned[a] = pre.owned[a]
        /\ Kitties[id].owner = to
        /\ Kitties[id].dna = pre.kitties[id].dna
        /\ Kitties[id].gender = pre.kitties[id].gender
        /\ Kitties[id].name = pre.kitties[id].name
        /\ DOMAIN Kitties = DOMAIN pre.kitties
        /\ \A other \in DOMAIN Kitties \ {id} : Kitties[other] = pre.kitties[other]
        /\ FreeBalance = pre.bal
        /\ KittyCnt = pre.cnt
        /\ last.event = Some(<< "Transferred", from, to, id >>)

\* C15: transfer(to, id) returns KittyNotExist when the kitty is not
\* stored, else NotKittyOwner when the caller is not its owner, else
\* TransferToSelf when the recipient is the caller, else
\* ExceedMaxKittyOwned when the recipient's vector is full; otherwise it
\* succeeds: the id leaves the caller's vector and is appended to the
\* recipient's, the kitty's owner is the recipient, every other kitty and
\* every balance is unchanged, and Transferred(from, to, id) is deposited.
C15_TransferContract ==
    Done("transfer") =>
        LET pre == last.pre
        IN  IF last.id \notin DOMAIN pre.kitties
            THEN last.res = "KittyNotExist"
            ELSE IF pre.kitties[last.id].owner # last.who
            THEN last.res = "NotKittyOwner"
            ELSE IF last.arg = last.who
            THEN last.res = "TransferToSelf"
            ELSE IF Len(pre.owned[last.arg]) >= MaxKittyOwned
            THEN last.res = "ExceedMaxKittyOwned"
            ELSE last.res = Ok /\ TransferEffects

\* a kitty went from an account that held another kitty as well to an
\* account that already held one
C15_Witness ==
    /\ Succeeded("transfer")
    /\ Len(last.pre.owned[last.who]) >= 2
    /\ Len(last.pre.owned[last.arg]) >= 1
    /\ Kitties[last.id].owner = last.arg
    /\ last.event = Some(<< "Transferred", last.who, last.arg, last.id >>)

\* the dna of the kitty that mint built in the call
MintedDna == MintedId[1]

\* the mint of the call was for a dna that a stored kitty has, under an id
\* that is not stored
MintWithStoredDna ==
    /\ MintAttempted
    /\ MintedId \notin DOMAIN last.pre.kitties
    /\ \E old \in DOMAIN last.pre.kitties : last.pre.kitties[old].dna = MintedDna

\* what a successful mint for a stored dna leaves behind: the dna index
\* maps the dna to the new id, and every older kitty is still stored,
\* unchanged, and still in its owner's vector
DnaTakenOver ==
    LET pre == last.pre
    IN  /\ MintedDna \in DOMAIN pre.dna
        /\ pre.dna[MintedDna] # MintedId
        /\ DnaToKitty[MintedDna] = MintedId
        /\ \A old \in DOMAIN pre.kitties :
              /\ old \in DOMAIN Kitties
              /\ Kitties[old] = pre.kitties[old]
              /\ old \in Ids(KittiesOwned[Kitties[old].owner])

\* C16 as stated: a mint whose dna is the dna of a stored kitty and whose
\* id is new (another owner or gender) is not refused; it succeeds, the
\* dna index then maps the dna to the new id, and the older kitty stays in
\* the kitty map and in its owner's vector.
C16_Original ==
    MintWithStoredDna => (last.res = Ok /\ DnaTakenOver)

\* C16, amended: a mint whose dna is the dna of a stored kitty and whose
\* id is new (another owner or gender) is never refused for its dna: it
\* succeeds exactly when the count is below the top of its range and the
\* owner's vector has room, and fails with KittyCntOverflow or
\* ExceedMaxKittyOwned otherwise; when it succeeds the dna index maps the
\* dna to the new id, and every older kitty stays in the kitty map,
\* unchanged, and in its owner's vector.
C16_DnaIndexOverwritten ==
    MintWithStoredDna =>
        LET pre == last.pre
        IN  /\ last.res =
                  IF pre.cnt >= MaxKittyCnt THEN "KittyCntOverflow"
                  ELSE IF Len(pre.owned[last.who]) >= MaxKittyOwned
                  THEN "ExceedMaxKittyOwned"
                  ELSE Ok
            /\ (last.res = Ok) => DnaTakenOver

\* a mint took over the dna index entry of an older kitty of another owner
C16_Witness ==
    /\ MintWithStoredDna
    /\ last.res = Ok
    /\ last.pre.dna[MintedDna] \in DOMAIN Kitties
    /\ Kitties[last.pre.dna[MintedDna]].owner # last.who
    /\ Kitties[last.pre.dna[MintedDna]].dna = MintedDna
    /\ DnaToKitty[MintedDna] = MintedId

MutableFields(op) ==
    CASE op = "set_price" -> {"price"}
      [] op \in {"transfer", "buy_kitty"} -> {"owner", "price"}
      [] op = "name_kitty" -> {"name"}
      [] OTHER -> {}

\* C18: a stored id stays stored in every later state, with the same dna
\* and gender; set_price changes only the price of its kitty, transfer and
\* buy_kitty only its owner and price, name_kitty only its name; no call
\* changes a field of a kitty that is not its target, and a failed call,
\* create_kitty and breed_kitty change no field of any stored kitty.
C18_KittiesPersistFieldsFramed ==
    pc = "done" =>
        \/ Kitties = last.pre.kitties
        \/ \A id \in DOMAIN last.pre.kitties :
              /\ id \in DOMAIN Kitties
              /\ Kitties[id].dna = last.pre.kitties[id].dna
              /\ Kitties[id].gender = last.pre.kitties[id].gender
              /\ \A f \in {"dna", "price", "gender", "owner", "name"} :
                    Kitties[id][f] # last.pre.kitties[id][f] =>
                        /\ last.res = Ok
                        /\ id = last.id
                        /\ f \in MutableFields(last.op)

\* the owner named a priced kitty while another kitty was stored: the name
\* changed, the price stayed
C18_Witness ==
    /\ Succeeded("name_kitty")
    /\ Cardinality(DOMAIN Kitties) >= 2
    /\ last.pre.kitties[last.id].price # None
    /\ Kitties[last.id].price = last.pre.kitties[last.id].price
    /\ Kitties[last.id].name # last.pre.kitties[last.id].name

\* C19: in every call, the price of a kitty becomes a new Some value only
\* by a set_price of its owner, its name changes only by a name_kitty of
\* its owner, and its owner changes only by a transfer called by its owner
\* or by a buy_kitty made while its price was Some(ask) with bid >= ask;
\* the owner of a kitty whose price is None changes only by its owner's
\* transfer.
C19_OnlyOwnerControls ==
    pc = "done" =>
        \/ Kitties = last.pre.kitties
        \/ \A id \in DOMAIN last.pre.kitties :
              LET old == last.pre.kitties[id]
                  new == Kitties[id]
                  byOwner(op) == last.op = op /\ last.id = id /\ last.who = old.owner
                  bought == /\ last.op = "buy_kitty"
                            /\ last.id = id
                            /\ old.price # None
                            /\ last.arg >= old.price[1]
                            /\ new.owner = last.who
              IN  /\ (new.price # old.price /\ new.price # None) => byOwner("set_price")
                  /\ (new.price # old.price /\ new.price = None) =>
                        (byOwner("set_price") \/ byOwner("transfer") \/ bought)
                  /\ new.name # old.name => byOwner("name_kitty")
                  /\ new.owner # old.owner => (byOwner("transfer") \/ bought)
                  /\ (new.owner # old.owner /\ old.price = None) => byOwner("transfer")

\* an account that is not the owner took a kitty by paying more than the
\* price its owner had set
C19_Witness ==
    /\ Succeeded("buy_kitty")
    /\ last.pre.kitties[last.id].owner # last.who
    /\ Kitties[last.id].owner = last.who
    /\ last.pre.kitties[last.id].price = Some(1)
    /\ last.arg = 2
    /\ FreeBalance[last.who] = last.pre.bal[last.who] - 2

\* fetch_kitty_id(dna) on the storage of the state
fetch_kitty_id(dna) ==
    IF dna \in DOMAIN DnaToKitty THEN Some(DnaToKitty[dna]) ELSE None

\* C20: in every state, every key of the dna index maps to a stored id
\* whose kitty has that dna, and the dna of every stored kitty is a key of
\* the dna index (mapped to that kitty or to another kitty of the same
\* dna).
C20_DnaIndexConsistent ==
    /\ \A d \in DOMAIN DnaToKitty :
          LET found == fetch_kitty_id(d)
          IN  /\ found # None
              /\ found[1] \in DOMAIN Kitties
              /\ Kitties[found[1]].dna = d
    /\ \A id \in DOMAIN Kitties : fetch_kitty_id(Kitties[id].dna) # None

\* three kitties and two dna values are stored after a mint was refused:
\* one dna is indexed under a kitty that is not the first minted with it
C20_Witness ==
    /\ pc = "done"
    /\ last.op \in {"create_kitty", "breed_kitty"}
    /\ last.res # Ok
    /\ Cardinality(DOMAIN Kitties) >= 3
    /\ Cardinality(DOMAIN DnaToKitty) = 2
    /\ \E id \in DOMAIN Kitties : fetch_kitty_id(Kitties[id].dna) # Some(id)

====
